---- MODULE Spec2Model ----
(***************************************************************************)
(* State-machine model of theme_park_waits_swarm.cpp: the globals of the   *)
(* sketch, setup() as the initial state and one action, loop(), for one    *)
(* invocation of the Arduino loop function.                                *)
(*                                                                         *)
(* Numbers.  millis() is modelled as a non-decreasing natural number (the  *)
(* clock contract of the design: monotonic, below the 2^32 wrap), so the   *)
(* unsigned subtractions of loop() never wrap.  float quantities           *)
(* (positions, velocities) are kept in thousandths, as integers; products  *)
(* and quotients are truncated toward zero to that resolution.             *)
(*                                                                         *)
(* Inputs of one loop() invocation: the time that passed since the last    *)
(* one, the results of random() for a wave, and the steering that the      *)
(* flocking rules and the wing-flapping term add to a velocity (these are  *)
(* float expressions over sqrt, sin and cos; the model draws their sum     *)
(* from a small set instead of computing it, or, in the repeated runs,     *)
(* computes the wing-flapping term from millis()).                         *)
(*                                                                         *)
(* Specifications.  Spec follows the clock with masks of one and three     *)
(* pixels; SpecWaves follows the waves over the mask of THEME PARK WAITS;  *)
(* SpecRuns restarts the board and repeats a run; SpecCycle goes around    *)
(* the list of directions; SpecLive follows runs to their end under        *)
(* fairness; SpecColor applies hsvToRgb.                                   *)
(***************************************************************************)
EXTENDS Integers, Sequences, FiniteSets, TLC

VARIABLES
    targetPixels,        \* std::set<Position> targetPixels
    capturedPixels,      \* std::set<Position> capturedPixels
    flock,               \* std::vector<FlockBird> flock
    startTime,           \* unsigned long startTime
    lastUpdate,          \* unsigned long lastUpdate
    lastSpawnTime,       \* unsigned long lastSpawnTime (relative to startTime)
    currentDirectionIdx, \* int currentDirectionIdx
    animationComplete,   \* bool animationComplete
    completionTime,      \* unsigned long completionTime
    clock,               \* the value millis() returned last
    calls,               \* the display calls of the last loop() invocation
    branch,              \* the path the last loop() invocation took
    spawned,             \* birds created by the last loop() invocation
    despawned,           \* birds erased by the last loop() invocation
    recorded,            \* how often the completion branch has executed
    ended,               \* how often the end-of-program branch has executed
    generator,           \* the state of the generator behind random()
    loops,               \* how often loop() has been invoked
    seed,                \* the value setup() gave to randomSeed()
    run,                 \* what the effective invocations of this run did
    firstRun,            \* what those of the run before the restart did
    hsv,                 \* the arguments of the hsvToRgb call examined
    rgb                  \* the Color it returned

vars == <<targetPixels, capturedPixels, flock, startTime, lastUpdate,
          lastSpawnTime, currentDirectionIdx, animationComplete,
          completionTime, clock, calls, branch, spawned, despawned, recorded,
          ended, generator, loops, seed, run, firstRun, hsv, rgb>>

simVars == <<capturedPixels, flock, lastUpdate, lastSpawnTime,
             currentDirectionIdx, completionTime, animationComplete>>

----------------------------------------------------------------------------
(* Program constants *)

HEIGHT == 32
WIDTH == 64
Milli == 1000
numDirections == 8
spawnInterval == 3
UpdatePeriod == 50
EndDelay == 1000
FlockLimit == 200
WaveCap == 50
maxVel == 3

directions ==
    <<"left", "right", "top", "bottom",
      "top_left", "top_right", "bottom_left", "bottom_right">>

----------------------------------------------------------------------------
(* Bounds of the model *)

MaxLoops == 7
MaxTime == 10200
MaxWaves == 6
MaxRunLoops == 6
MaxRunTime == 3400
MaxCycleLoops == 9
MaxLiveLoops == 10
MaxLiveTime == 12400
HueSpread == 4
RandMax == 1

----------------------------------------------------------------------------
(* Arithmetic helpers *)

Min(a, b) == IF a <= b THEN a ELSE b

\* C division of integers, and float division at the model's resolution:
\* the quotient truncated toward zero.
Div(a, b) == IF a >= 0 THEN a \div b ELSE -((-a) \div b)

RECURSIVE SqrtSearch(_, _, _)
SqrtSearch(n, lo, hi) ==
    IF lo >= hi THEN lo
    ELSE LET mid == (lo + hi + 1) \div 2
         IN  IF mid * mid <= n THEN SqrtSearch(n, mid, hi)
             ELSE SqrtSearch(n, lo, mid - 1)

\* sqrt, rounded down
Sqrt(n) == SqrtSearch(n, 0, 46340)

Position(px, py) == [x |-> px, y |-> py]

Vector2D(px, py) == [x |-> px, y |-> py]

\* Position::operator<
PositionLess(a, b) == (a.x < b.x) \/ (a.x = b.x /\ a.y < b.y)

\* Vector2D::magnitude > bound, with the components in thousandths
MagnitudeAbove(v, bound) ==
    v.x * v.x + v.y * v.y > (bound * Milli) * (bound * Milli)

\* Vector2D::normalize() * scalar
NormalizeTimes(v, scalar) ==
    LET mag == Sqrt(v.x * v.x + v.y * v.y)
    IN  IF mag > 0
        THEN Vector2D(Div(v.x * scalar * Milli, mag), Div(v.y * scalar * Milli, mag))
        ELSE Vector2D(0, 0)

\* random(lo, hi): a value of lo .. hi-1.  The generator cycles through
\* RandMax + 1 states; in state g the call returns the g-th of the values
\* that divide lo .. hi-1 evenly, and the generator moves on by one.
random(lo, hi, g) == lo + ((hi - 1 - lo) * (g % (RandMax + 1))) \div RandMax

\* A sequence given by its elements, as a std::vector holds it: evaluated once
Vector(elements) == elements \o <<>>

Rect(x1, x2, y1, y2) == {Position(px, py) : px \in x1..x2, py \in y1..y2}

----------------------------------------------------------------------------
(* hsvToRgb.  A float is kept as the integer number of units of 2^-26 it    *)
(* holds: every float of 1/8 .. 8, and every multiple of 2^-26 below 1/8, is *)
(* such a number.  Each operation of the code is computed exactly and then  *)
(* rounded to the nearest float (24 significant bits, ties to even).        *)

\* 1.0f
One == 67108864

\* The distance between the floats around v
spacing(v) ==
    IF v < 16777216 THEN 1
    ELSE IF v < 33554432 THEN 2
    ELSE IF v < One THEN 4
    ELSE IF v < 2 * One THEN 8
    ELSE IF v < 4 * One THEN 16
    ELSE 32

\* The multiple of sp nearest to v, the even one of two
nearest(v, sp) ==
    LET q == v \div sp
        r == v % sp
    IN  IF 2 * r < sp \/ (2 * r = sp /\ q % 2 = 0) THEN q * sp ELSE (q + 1) * sp

\* The float an operation with the exact result v returns
float(v) == nearest(v, spacing(v))

\* k / 6.0f
sixth(k) ==
    LET sp == spacing((k * One) \div 6)
        q == (k * One) \div (6 * sp)
        r == (k * One) % (6 * sp)
    IN  IF r < 3 * sp \/ (r = 3 * sp /\ q % 2 = 0) THEN q * sp ELSE (q + 1) * sp

fmod(a, b) == a % b

fabs(a) == IF a < 0 THEN -a ELSE a

\* a * b for floats one of which is 0 or 1
times(a, b) ==
    CASE a = 0 \/ b = 0 -> 0
      [] a = One -> b
      [] b = One -> a

\* (uint8_t)(value * 255) for a float of 0 .. 1: the product, rounded to a
\* float, without its fraction
toByte(value) ==
    LET high == 255 * (value \div 8192)
        low == (high % 8192) * 8192 + 255 * (value % 8192)
        whole == high \div 8192 + low \div One
        fraction == low % One
        sp == IF whole >= 128 THEN 1024
              ELSE IF whole >= 64 THEN 512
              ELSE IF whole >= 32 THEN 256
              ELSE IF whole >= 16 THEN 128
              ELSE IF whole >= 8 THEN 64
              ELSE IF whole >= 4 THEN 32
              ELSE IF whole >= 2 THEN 16
              ELSE IF whole >= 1 THEN 8
              ELSE spacing(fraction)
    IN  IF nearest(fraction, sp) = One THEN whole + 1 ELSE whole

Color(r, g, b) == <<r, g, b>>

\* Mutant of secondary: the distance from the even sextant is not taken
secondaryUnshifted(h, c) ==
    times(c, float(One - float(fabs(fmod(float(h * 6), 2 * One)))))

\* float x = c * (1.0f - fabs(fmod(h * 6.0f, 2.0f) - 1.0f))
secondary(h, c) ==
    times(c, float(One - float(fabs(fmod(float(h * 6), 2 * One) - One))))

\* hsvToRgb(h, s, v) for h of 0 .. 1 and s, v of 0 and 1
hsvToRgb(hue, s, v) ==
    LET h == fmod(hue, One)
        c == times(v, s)
        x == secondary(h, c)
        m == float(v - c)
        channels ==
            IF h < sixth(1) THEN <<c, x, 0>>
            ELSE IF h < sixth(2) THEN <<x, c, 0>>
            ELSE IF h < sixth(3) THEN <<0, c, x>>
            ELSE IF h < sixth(4) THEN <<0, x, c>>
            ELSE IF h < sixth(5) THEN <<x, 0, c>>
            ELSE <<c, 0, x>>
    IN  Color(toByte(float(channels[1] + m)),
              toByte(float(channels[2] + m)),
              toByte(float(channels[3] + m)))

----------------------------------------------------------------------------
(* Target mask *)

\* getThemeParkWaitsPixels(): the pixels of THEME PARK WAITS
ThemeParkLine ==
    \* T
    Rect(4, 8, 3, 3) \cup Rect(6, 6, 4, 10)
    \* H
    \cup Rect(10, 10, 3, 10) \cup Rect(14, 14, 3, 10) \cup Rect(11, 13, 6, 6)
    \* E
    \cup Rect(16, 16, 3, 10) \cup Rect(16, 19, 3, 3) \cup Rect(16, 18, 6, 6)
    \cup Rect(16, 19, 10, 10)
    \* M
    \cup Rect(22, 22, 3, 10) \cup Rect(27, 27, 3, 10)
    \cup {Position(23, 4), Position(24, 5), Position(25, 5), Position(26, 4)}
    \* E
    \cup Rect(29, 29, 3, 10) \cup Rect(29, 32, 3, 3) \cup Rect(29, 31, 6, 6)
    \cup Rect(29, 32, 10, 10)
    \* P
    \cup Rect(36, 36, 3, 10) \cup Rect(36, 39, 3, 3) \cup Rect(36, 39, 6, 6)
    \cup {Position(39, 4), Position(39, 5)}
    \* A
    \cup Rect(42, 42, 4, 10) \cup Rect(46, 46, 4, 10) \cup Rect(43, 45, 3, 3)
    \cup Rect(42, 46, 6, 6)
    \* R
    \cup Rect(48, 48, 3, 10) \cup Rect(48, 51, 3, 3) \cup Rect(48, 51, 6, 6)
    \cup {Position(51, 4), Position(51, 5), Position(50, 7), Position(51, 8),
          Position(52, 9), Position(53, 10)}
    \* K
    \cup Rect(54, 54, 3, 10)
    \cup {Position(57, 3), Position(56, 4), Position(55, 5), Position(55, 6),
          Position(56, 7), Position(57, 8), Position(58, 9), Position(59, 10)}

WaitsLine ==
    \* W
    Rect(5, 6, 15, 30) \cup Rect(13, 14, 15, 30)
    \cup Rect(7, 8, 27, 28) \cup Rect(11, 12, 27, 28) \cup Rect(9, 10, 23, 26)
    \* A
    \cup Rect(16, 17, 17, 30) \cup Rect(24, 25, 17, 30) \cup Rect(18, 23, 15, 16)
    \cup Rect(16, 25, 22, 23)
    \* I
    \cup Rect(27, 36, 15, 16) \cup Rect(27, 36, 29, 30) \cup Rect(31, 32, 15, 30)
    \* T
    \cup Rect(38, 47, 15, 16) \cup Rect(42, 43, 15, 30)
    \* S
    \cup Rect(49, 58, 15, 16) \cup Rect(49, 50, 17, 21) \cup Rect(49, 58, 22, 23)
    \cup Rect(57, 58, 24, 28) \cup Rect(49, 58, 29, 30)

getThemeParkWaitsPixels == ThemeParkLine \cup WaitsLine

----------------------------------------------------------------------------
(* FlockBird *)

\* FlockBird::FlockBird(x, y, direction), with the generator in state g.
\* phase, speedMultiplier and separationRadius take the first three draws;
\* they enter only the steering, so the bird carries position and velocity.
FlockBird(x, y, direction, g) ==
    [position |-> Vector2D(x, y),
     velocity |-> Vector2D(Div(direction.x * random(80, 120, g + 3), 100),
                           Div(direction.y * random(80, 120, g + 4), 100))]

\* (int)round(v): to the nearest integer, halves away from zero
Round(v) ==
    IF v >= 0 THEN (v + Milli \div 2) \div Milli
    ELSE -((-v + Milli \div 2) \div Milli)

\* FlockBird::getPixelPos
getPixelPos(bird) == Position(Round(bird.position.x), Round(bird.position.y))

\* FlockBird::isOnScreen
isOnScreen(bird) ==
    /\ bird.position.x >= 0
    /\ bird.position.x < WIDTH * Milli
    /\ bird.position.y >= 0
    /\ bird.position.y < HEIGHT * Milli

\* The velocity limit of FlockBird::updateFlocking
limitVelocity(velocity) ==
    IF MagnitudeAbove(velocity, maxVel)
    THEN NormalizeTimes(velocity, maxVel)
    ELSE velocity

\* sin of an angle in thousandths of a radian, in thousandths: Bhaskara's
\* rational approximation on each half period
sin(angle) ==
    LET a == angle % 6283
        half == IF a < 3142 THEN a ELSE a - 3141
        p == half * (3142 - half)
        value == Div(16 * p, 49348 - Div(4 * p, 1000))
    IN  IF a < 3142 THEN value ELSE -value

cos(angle) == sin(angle + 1571)

\* Mutant of wingFlap: the reading of the invocation before is used
wingFlapStale(currentTime) ==
    Vector2D(Div(50 * sin(8 * clock), Milli), Div(30 * cos(6 * clock), Milli))

\* Add some wing-flapping motion: what a bird of phase 0 and speed
\* multiplier 1 adds to its velocity when millis() is currentTime
wingFlap(currentTime) ==
    Vector2D(Div(50 * sin(8 * currentTime), Milli),
             Div(30 * cos(6 * currentTime), Milli))

\* FlockBird::updateFlocking; steer is what the flocking forces and the
\* wing-flapping term add to the velocity
updateFlocking(bird, steer) ==
    LET velocity == limitVelocity(Vector2D(bird.velocity.x + steer.x,
                                           bird.velocity.y + steer.y))
    IN  [position |-> Vector2D(bird.position.x + Div(velocity.x * 4, 10),
                               bird.position.y + Div(velocity.y * 4, 10)),
         velocity |-> velocity]

\* Mutant of flownOff: a margin of 50 instead of 25
flownOffWide(bird) ==
    \/ bird.position.x < -50 * Milli
    \/ bird.position.x > 114 * Milli
    \/ bird.position.y < -50 * Milli
    \/ bird.position.y > 82 * Milli

\* The predicate of the remove_if of loop(): the bird has flown off screen
flownOff(bird) ==
    \/ bird.position.x < -25 * Milli
    \/ bird.position.x > 89 * Milli
    \/ bird.position.y < -25 * Milli
    \/ bird.position.y > 57 * Milli

----------------------------------------------------------------------------
(* createFlockFromDirection *)

\* Whether the entry point of a direction draws from random()
cardinal(direction) == direction \in {"left", "right", "top", "bottom"}

\* The entry point and flight direction of a wave, with the generator in
\* state g
entryPoint(direction, g) ==
    IF direction = "left"
    THEN [baseX |-> -10 * Milli, baseY |-> 16 * Milli,
          flightDir |-> Vector2D(2 * Milli, random(-50, 50, g) * 10)]
    ELSE IF direction = "right"
    THEN [baseX |-> 74 * Milli, baseY |-> 16 * Milli,
          flightDir |-> Vector2D(-2 * Milli, random(-50, 50, g) * 10)]
    ELSE IF direction = "top"
    THEN [baseX |-> 32 * Milli, baseY |-> -10 * Milli,
          flightDir |-> Vector2D(random(-50, 50, g) * 10, 2 * Milli)]
    ELSE IF direction = "bottom"
    THEN [baseX |-> 32 * Milli, baseY |-> 42 * Milli,
          flightDir |-> Vector2D(random(-50, 50, g) * 10, -2 * Milli)]
    ELSE [baseX |-> 32 * Milli, baseY |-> 16 * Milli,
          flightDir |-> Vector2D(1 * Milli, 1 * Milli)]

\* The random() calls of one bird of the formation: two for the offsets,
\* five in the constructor
DrawsPerBird == 2 + 5

\* createFlockFromDirection(numBirds, direction), with the generator in
\* state g
createFlockFromDirection(numBirds, direction, g) ==
    LET e == entryPoint(direction, g)
        g0 == IF cardinal(direction) THEN g + 1 ELSE g
    IN  Vector([k \in 1..numBirds |->
            LET i == k - 1
                gi == g0 + DrawsPerBird * i
                row == i \div 8
                col == i % 8
                offsetX == (col - 4) * 2 * Milli + random(-100, 100, gi) * 10
                offsetY == row * 3 * Milli + random(-100, 100, gi + 1) * 10
            IN  FlockBird(e.baseX + offsetX, e.baseY + offsetY, e.flightDir,
                          gi + 2)])

\* The generator after createFlockFromDirection(numBirds, direction)
generatorAfter(numBirds, direction, g) ==
    (g + (IF cardinal(direction) THEN 1 ELSE 0) + DrawsPerBird * numBirds)
        % (RandMax + 1)

----------------------------------------------------------------------------
(* Display calls *)

fillScreen == [op |-> "fillScreen"]

show == [op |-> "show"]

\* matrix.drawPixel(x, y, color); the color is determined by what is drawn:
\* a captured pixel, or the bird at an index of the flock
drawPixel(px, py, what, index) ==
    [op |-> "drawPixel", x |-> px, y |-> py, what |-> what, index |-> index]

\* The elements of a std::set<Position> in iteration order
InOrder(pixels) ==
    LET before == [p \in pixels |->
                      Cardinality({q \in pixels : PositionLess(q, p)})]
    IN  Vector([k \in 1..Cardinality(pixels) |->
            CHOOSE p \in pixels : before[p] = k - 1])

\* Mutant of drawBirds: birds off screen are drawn too
drawBirdsAll(fl) ==
    [k \in 1..Len(fl) |->
        drawPixel(getPixelPos(fl[k]).x, getPixelPos(fl[k]).y, "bird", k - 1)]

\* The draw calls of the birds: one per bird on screen, in flock order
drawBirds(fl) ==
    LET shown == SelectSeq([k \in 1..Len(fl) |-> k],
                           LAMBDA k : isOnScreen(fl[k]))
    IN  [j \in 1..Len(shown) |->
            drawPixel(getPixelPos(fl[shown[j]]).x, getPixelPos(fl[shown[j]]).y,
                      "bird", shown[j] - 1)]

\* The display update at the end of loop()
updateDisplay(captured, fl) ==
    LET text == InOrder(captured)
    IN  <<fillScreen>>
        \o [k \in 1..Len(text) |-> drawPixel(text[k].x, text[k].y, "text", k - 1)]
        \o drawBirds(fl)
        \o <<show>>

----------------------------------------------------------------------------
(* The steps of loop() *)

spawnIntervalMs == spawnInterval * 1000

\* Mutant of tooSoon: the interval is measured from startTime
tooSoonSinceStart(currentTime) == currentTime - startTime < UpdatePeriod

\* Update every ~50ms: the invocation returns at once
tooSoon(currentTime) == currentTime - lastUpdate < UpdatePeriod

\* Mutant of textComplete: one captured pixel is enough
textCompleteAny == Cardinality(capturedPixels) >= 1

\* Mutant of textComplete: strictly more captured than targeted
textCompleteStrict ==
    Cardinality(capturedPixels) > Cardinality(targetPixels)

\* bool textComplete
textComplete == Cardinality(capturedPixels) >= Cardinality(targetPixels)

\* Mutant of justCompleted: the timestamp is not tested
justCompletedUnguarded == textComplete

\* The condition of the branch that records the completion
justCompleted == textComplete /\ completionTime = 0

\* Mutant of completionAfter: the completion is not recorded
completionAfterNever(currentTime) == completionTime

\* Mutant of completionAfter: the elapsed time is recorded
completionAfterElapsed(currentTime) ==
    IF textComplete /\ completionTime = 0
    THEN currentTime - startTime
    ELSE completionTime

\* The completion timestamp after the check for completion
completionAfter(currentTime) ==
    IF justCompleted THEN currentTime ELSE completionTime

\* Mutant of endProgram: strictly more than the delay
endProgramStrict(currentTime, completion) ==
    completion # 0 /\ currentTime - completion > EndDelay

\* Mutant of endProgram: exactly the delay
endProgramExact(currentTime, completion) ==
    completion # 0 /\ currentTime - completion = EndDelay

\* End program 1 second after completion
endProgram(currentTime, completion) ==
    completion # 0 /\ currentTime - completion >= EndDelay

\* int remainingLeds
remainingLeds == Cardinality(targetPixels) - Cardinality(capturedPixels)

\* Mutant of spawnNeeded: a wave is due at the interval itself
spawnNeededAtInterval(currentTime) ==
    /\ remainingLeds > 0
    /\ (currentTime - startTime) - lastSpawnTime >= spawnIntervalMs
    /\ Len(flock) < FlockLimit

\* Mutant of spawnNeeded: the size of the flock is not tested
spawnNeededAnySize(currentTime) ==
    /\ remainingLeds > 0
    /\ (currentTime - startTime) - lastSpawnTime > spawnIntervalMs

\* Spawn new flock if needed
spawnNeeded(currentTime) ==
    /\ remainingLeds > 0
    /\ (currentTime - startTime) - lastSpawnTime > spawnIntervalMs
    /\ Len(flock) < FlockLimit

\* Mutant of nextDirectionIdx: the last entry of the list is left out
nextDirectionIdxShort == (currentDirectionIdx + 1) % (numDirections - 1)

\* currentDirectionIdx after a spawn
nextDirectionIdx == (currentDirectionIdx + 1) % numDirections

\* Mutant of birdsToSpawn: always a full wave
birdsToSpawnFull == WaveCap

\* int birdsToSpawn
birdsToSpawn == Min(WaveCap, remainingLeds)

\* Update bird positions
updateBirds(fl, steer) ==
    Vector([k \in 1..Len(fl) |-> updateFlocking(fl[k], steer)])

\* Mutant of lightLeds: the target mask is not tested
lightLedsAnywhere(fl, captured) ==
    captured \cup
    {getPixelPos(fl[k]) : k \in {j \in 1..Len(fl) : isOnScreen(fl[j])}}

\* Mutant of lightLeds: birds off screen light LEDs too
lightLedsOffScreen(fl, captured) ==
    captured \cup
    {p \in {getPixelPos(fl[k]) : k \in 1..Len(fl)} :
        p \in targetPixels /\ p \notin captured}

\* Mutant of lightLeds: the pixels lit before are dropped
lightLedsReplacing(fl, captured) ==
    {p \in {getPixelPos(fl[k]) : k \in {j \in 1..Len(fl) : isOnScreen(fl[j])}} :
        p \in targetPixels /\ p \notin captured}

\* Check for LED lighting: the captured set after the scan of the flock
lightLeds(fl, captured) ==
    captured \cup
    {p \in {getPixelPos(fl[k]) : k \in {j \in 1..Len(fl) : isOnScreen(fl[j])}} :
        p \in targetPixels /\ p \notin captured}

\* Remove birds that have flown off screen
removeFlownOff(fl) == SelectSeq(fl, LAMBDA bird : ~flownOff(bird))

\* One invocation of loop(): millis() has advanced by d; steer is the
\* steering of this invocation
loop(d, steer) ==
    LET currentTime == clock + d
    IN
    /\ clock' = currentTime
    /\ loops' = loops + 1
    /\ UNCHANGED <<targetPixels, startTime, seed>>
    /\ IF tooSoon(currentTime)
       THEN /\ branch' = "wait"
            /\ calls' = <<>>
            /\ spawned' = 0
            /\ despawned' = 0
            /\ UNCHANGED <<simVars, recorded, ended, generator>>
       ELSE
       LET completion == completionAfter(currentTime)
       IN
       /\ lastUpdate' = currentTime
       /\ completionTime' = completion
       /\ recorded' = IF justCompleted THEN recorded + 1 ELSE recorded
       /\ IF endProgram(currentTime, completion)
          THEN /\ branch' = "end"
               /\ animationComplete' = TRUE
               /\ ended' = ended + 1
               /\ calls' = <<fillScreen, show>>
               /\ spawned' = 0
               /\ despawned' = 0
               /\ UNCHANGED <<capturedPixels, flock, lastSpawnTime,
                              currentDirectionIdx, generator>>
          ELSE
          /\ branch' = "frame"
          /\ UNCHANGED <<animationComplete, ended>>
          /\ IF ~textComplete
             THEN
             LET spawn == spawnNeeded(currentTime)
                 direction == directions[currentDirectionIdx + 1]
                 newFlock == IF spawn
                             THEN createFlockFromDirection(
                                      birdsToSpawn, direction, generator)
                             ELSE <<>>
                 joined == flock \o newFlock
                 moved == updateBirds(joined, steer)
                 kept == removeFlownOff(moved)
             IN
             /\ spawned' = Len(newFlock)
             /\ generator' =
                    IF spawn
                    THEN generatorAfter(birdsToSpawn, direction, generator)
                    ELSE generator
             /\ currentDirectionIdx' =
                    IF spawn THEN nextDirectionIdx
                    ELSE currentDirectionIdx
             /\ lastSpawnTime' =
                    IF spawn THEN currentTime - startTime ELSE lastSpawnTime
             /\ capturedPixels' = lightLeds(moved, capturedPixels)
             /\ flock' = kept
             /\ despawned' = Len(moved) - Len(kept)
             /\ calls' = updateDisplay(capturedPixels', kept)
             ELSE
             /\ spawned' = 0
             /\ despawned' = 0
             /\ UNCHANGED <<capturedPixels, flock, lastSpawnTime,
                            currentDirectionIdx, generator>>
             /\ calls' = updateDisplay(capturedPixels, flock)

----------------------------------------------------------------------------
(* Specifications *)

\* Target masks given in place of THEME PARK WAITS: one pixel and three
\* pixels at the right edge, where the second wave enters the screen
OnePixel == {Position(63, 17)}

ThreePixels == {Position(63, 17), Position(62, 17), Position(61, 17)}

TargetMasks == {OnePixel, ThreePixels}

WaveMasks == {getThemeParkWaitsPixels, ThreePixels}

StartTimes == {120}

Deltas == {25, 1000, 3001}

\* The steering of the runs that follow the clock: none
Steers == {Vector2D(0, 0)}

\* The steering of the runs that follow the waves: none, or a push to the left
WaveSteers == {Vector2D(0, 0), Vector2D(-3 * Milli, 0)}

WaveDeltas == {3001}

\* setup(): the mask, the value of millis() and the value of analogRead(0),
\* the seed of the generator
setup(mask, now, analog) ==
    /\ targetPixels = mask
    /\ capturedPixels = {}
    /\ flock = <<>>
    /\ startTime = now
    /\ lastUpdate = now
    /\ lastSpawnTime = 0
    /\ currentDirectionIdx = 0
    /\ animationComplete = FALSE
    /\ completionTime = 0
    /\ clock = now
    /\ calls = <<fillScreen, show>>
    /\ branch = "setup"
    /\ spawned = 0
    /\ despawned = 0
    /\ recorded = 0
    /\ ended = 0
    /\ seed = analog
    /\ generator = analog
    /\ loops = 0
    /\ run = <<>>
    /\ firstRun = <<>>
    /\ hsv = <<>>
    /\ rgb = <<>>

Init ==
    \E mask \in TargetMasks, now \in StartTimes, analog \in 0..RandMax :
        setup(mask, now, analog)

Next ==
    \E d \in Deltas, steer \in Steers :
        /\ loops < MaxLoops
        /\ clock + d <= MaxTime
        /\ loop(d, steer)
        /\ UNCHANGED <<run, firstRun, hsv, rgb>>

Spec == Init /\ [][Next]_vars

\* The runs that follow the waves: the mask of THEME PARK WAITS or three
\* pixels, one invocation of loop() per spawn interval, with steering
InitWaves ==
    \E mask \in WaveMasks, now \in StartTimes, analog \in 0..RandMax :
        setup(mask, now, analog)

NextWaves ==
    \E d \in WaveDeltas, steer \in WaveSteers :
        /\ loops < MaxWaves
        /\ loop(d, steer)
        /\ UNCHANGED <<run, firstRun, hsv, rgb>>

SpecWaves == InitWaves /\ [][NextWaves]_vars

\* The runs that are repeated: a mask at the left edge, where the first wave
\* enters the screen; the steering is the wing flapping, a function of
\* millis().  After a restart of the board setup() executes again, with the
\* same reading of analogRead(0).
LeftEdge == Rect(0, 1, 14, 19)

RunMasks == {LeftEdge}

RunDeltas == {25, 50, 3001}

\* The repeated run is invoked less often: no invocation returns at once
RepeatDeltas == {50, 3001}

\* What an effective invocation of loop() did: the birds it created, the
\* flock and the captured set it left
effect ==
    [seed |-> seed,
     start |-> startTime,
     time |-> clock',
     invocations |-> loops',
     generator |-> generator,
     wave |-> IF spawned' > 0
              THEN createFlockFromDirection(
                       spawned', directions[currentDirectionIdx + 1], generator)
              ELSE <<>>,
     flock |-> flock',
     captured |-> capturedPixels']

InitRuns ==
    \E mask \in RunMasks, now \in StartTimes, analog \in 0..RandMax :
        setup(mask, now, analog)

invoke ==
    \E d \in IF firstRun = <<>> THEN RunDeltas ELSE RepeatDeltas :
        /\ loops < MaxRunLoops
        /\ clock + d <= MaxRunTime
        /\ loop(d, wingFlap(clock + d))
        /\ run' = IF branch' = "wait" THEN run ELSE Append(run, effect)
        /\ UNCHANGED <<firstRun, hsv, rgb>>

\* The board is restarted: setup() executes again
restart ==
    \E now \in StartTimes :
        /\ firstRun = <<>>
        /\ run # <<>>
        /\ firstRun' = run
        /\ run' = <<>>
        /\ capturedPixels' = {}
        /\ flock' = <<>>
        /\ startTime' = now
        /\ lastUpdate' = now
        /\ lastSpawnTime' = 0
        /\ currentDirectionIdx' = 0
        /\ animationComplete' = FALSE
        /\ completionTime' = 0
        /\ clock' = now
        /\ calls' = <<fillScreen, show>>
        /\ branch' = "setup"
        /\ spawned' = 0
        /\ despawned' = 0
        /\ recorded' = 0
        /\ ended' = 0
        /\ generator' = seed
        /\ loops' = 0
        /\ UNCHANGED <<targetPixels, seed, hsv, rgb>>

NextRuns == invoke \/ restart

SpecRuns == InitRuns /\ [][NextRuns]_vars

\* The runs that go around the list of directions: a mask of one pixel in
\* the bottom left corner, which no wave reaches in these runs, so every
\* wave is one bird
CornerPixel == {Position(0, 31)}

CycleDeltas == {1000, 3001}

InitCycle ==
    \E now \in StartTimes, analog \in 0..RandMax :
        setup(CornerPixel, now, analog)

NextCycle ==
    \E d \in CycleDeltas :
        /\ loops < MaxCycleLoops
        /\ loop(d, Vector2D(0, 0))
        /\ run' = IF branch' = "wait" THEN run ELSE Append(run, effect)
        /\ UNCHANGED <<firstRun, hsv, rgb>>

SpecCycle == InitCycle /\ [][NextCycle]_vars

\* The runs that are followed to their end: loop() is invoked again and
\* again, 49 ms or 1000 ms after the invocation before.  The invocations
\* before the text is complete are counted and bounded, the clock is bounded.
LiveDeltas == {49, 1000}

InitLive ==
    \E now \in StartTimes, analog \in 0..RandMax :
        setup(OnePixel, now, analog)

NextLive ==
    \E d \in LiveDeltas :
        /\ textComplete \/ loops < MaxLiveLoops
        /\ clock + d <= MaxLiveTime
        /\ loop(d, Vector2D(0, 0))
        /\ UNCHANGED <<run, firstRun, hsv, rgb>>

\* The runtime calls loop() forever
SpecLive == InitLive /\ [][NextLive]_vars /\ WF_vars(NextLive)

\* The time the bounded clock has to leave for a run to end: the completion
\* is recorded at most 49 + 1000 ms after the capture, and the end is
\* entered by an invocation less than 1000 + 50 + 49 ms after that
LiveSlack == 49 + 1000 + EndDelay + UpdatePeriod + 49

\* The conversions examined: the hues k/6 and the floats next to them, at
\* saturation and value 0 and 1
Hues ==
    {h \in {sixth(k) + j * spacing(sixth(k)) :
                k \in 0..5, j \in -HueSpread..HueSpread} : h >= 0}

convert ==
    \E h \in Hues, s \in {0, One}, v \in {0, One} :
        /\ hsv' = <<h, s, v>>
        /\ rgb' = hsvToRgb(h, s, v)
        /\ UNCHANGED <<targetPixels, capturedPixels, flock, startTime,
                       lastUpdate, lastSpawnTime, currentDirectionIdx,
                       animationComplete, completionTime, clock, calls,
                       branch, spawned, despawned, recorded, ended, generator,
                       loops, seed, run, firstRun>>

SpecColor == Init /\ [][convert]_vars

----------------------------------------------------------------------------
(* Claims *)

\* C1: in every reachable state every coordinate of capturedPixels is a
\* coordinate of targetPixels.
CapturedWithinTarget == capturedPixels \subseteq targetPixels

\* C1 witness: a frame has captured a pixel of THEME PARK WAITS.
CapturedSome ==
    /\ targetPixels = getThemeParkWaitsPixels
    /\ capturedPixels # {}
    /\ branch = "frame"

\* C2: every invocation of loop() keeps the coordinates captured before it:
\* the captured set only grows.
CapturedInsertOnly == [][capturedPixels \subseteq capturedPixels']_vars

\* C2 witness: pixels captured by earlier frames are held while a later frame
\* spawns a wave.
CapturedKeptAcrossFrames ==
    /\ Cardinality(capturedPixels) >= 2
    /\ spawned > 0
    /\ loops >= 4

\* C3: the completion timestamp is zero while the captured set is smaller
\* than the target mask, the branch that records it executes at most once,
\* and once it is non-zero no invocation changes it.
CompletionRecordedOnce ==
    /\ [](Cardinality(capturedPixels) < Cardinality(targetPixels)
            => completionTime = 0)
    /\ [](recorded <= 1)
    /\ [](completionTime # 0 => recorded = 1)
    /\ [][completionTime # 0 => completionTime' = completionTime]_vars

\* C3 witness: the timestamp was recorded and a later effective invocation
\* has run.
CompletionRecordedEarlier ==
    /\ completionTime # 0
    /\ recorded = 1
    /\ lastUpdate > completionTime

\* C4 as stated: the active collection never holds more than 200 birds.
FlockAtMostLimit == Len(flock) <= FlockLimit

\* C4 amended: a wave is spawned only while the collection holds fewer than
\* 200 birds and adds at most 50, so the collection never holds more than
\* 249 birds.
FlockAtMostLimitPlusWave ==
    /\ [](Len(flock) <= FlockLimit - 1 + WaveCap)
    /\ [][spawned' > 0 => Len(flock) < FlockLimit]_vars

\* C4 witness: a spawn has left more than 200 birds in the collection.
FlockAboveLimit == Len(flock) > FlockLimit /\ spawned > 0

\* C5: once the captured set has the size of the target mask, no invocation
\* inserts a coordinate, spawns, updates or erases a bird, or changes the
\* direction index or the last-spawn time.
FrozenWhenComplete ==
    [][Cardinality(capturedPixels) >= Cardinality(targetPixels) =>
          /\ capturedPixels' = capturedPixels
          /\ flock' = flock
          /\ currentDirectionIdx' = currentDirectionIdx
          /\ lastSpawnTime' = lastSpawnTime
          /\ spawned' = 0
          /\ despawned' = 0]_vars

\* C5 witness: a frame was drawn after the completion was recorded, with a
\* bird still on a target coordinate.
FrameWhileComplete ==
    /\ branch = "frame"
    /\ completionTime # 0
    /\ lastUpdate > completionTime
    /\ \E k \in 1..Len(flock) :
          isOnScreen(flock[k]) /\ getPixelPos(flock[k]) \in targetPixels

\* C6 as stated: the invocation in which the captured set reaches the size
\* of the target mask records the completion timestamp, with its own clock
\* reading.
CompletionRecordedInCapturingTick ==
    [][(/\ Cardinality(capturedPixels) < Cardinality(targetPixels)
        /\ Cardinality(capturedPixels') = Cardinality(targetPixels'))
          => completionTime' = clock']_vars

\* C6 amended: the invocation in which the captured set reaches the size of
\* the target mask leaves the completion timestamp zero; the next effective
\* invocation, at least 50 ms later, records it with its own clock reading.
CompletionRecordedInNextTick ==
    [][/\ (/\ Cardinality(capturedPixels) < Cardinality(targetPixels)
           /\ Cardinality(capturedPixels') = Cardinality(targetPixels'))
             => completionTime' = 0
       /\ (/\ Cardinality(capturedPixels) = Cardinality(targetPixels)
           /\ completionTime = 0
           /\ branch' # "wait")
             => /\ completionTime' = clock'
                /\ completionTime' >= lastUpdate + UpdatePeriod
                /\ branch' = "frame"]_vars

\* C6 witness: the completion of the one-pixel mask was recorded by the
\* invocation after the one that captured the pixel.
CompletionRecorded ==
    /\ targetPixels = OnePixel
    /\ capturedPixels = OnePixel
    /\ completionTime = clock
    /\ recorded = 1

\* C7 as stated: the invocation that sets animationComplete reads the clock
\* at completionTime + 1000.
EndExactlyAfterDelay ==
    [][(~animationComplete /\ animationComplete')
          => clock' = completionTime' + EndDelay]_vars

\* C7 amended: the end of the program is entered by the first effective
\* invocation whose clock reading is at least completionTime + 1000; no
\* invocation with a smaller reading enters it.
EndAtFirstTickAfterDelay ==
    [][/\ branch' = "end"
             => completionTime' # 0 /\ clock' >= completionTime' + EndDelay
       /\ (branch' = "frame" /\ completionTime # 0)
             => clock' < completionTime + EndDelay
       /\ animationComplete' = (animationComplete \/ branch' = "end")]_vars

\* C7 witness: the end was entered at exactly completionTime + 1000.
EndedAtDelay ==
    /\ animationComplete
    /\ ended = 1
    /\ clock = completionTime + EndDelay

\* C8: once animationComplete is true it stays true, and every later
\* invocation draws no pixel (an effective one clears and shows the blank
\* display) and leaves the captured set, the flock, the completion
\* timestamp, the direction index and the last-spawn time unchanged.
EndIsTerminal ==
    [][animationComplete =>
          /\ animationComplete'
          /\ calls' = IF branch' = "wait" THEN <<>> ELSE <<fillScreen, show>>
          /\ branch' \in {"wait", "end"}
          /\ capturedPixels' = capturedPixels
          /\ flock' = flock
          /\ completionTime' = completionTime
          /\ currentDirectionIdx' = currentDirectionIdx
          /\ lastSpawnTime' = lastSpawnTime]_vars

\* C8 witness: an effective invocation has run after the one that ended the
\* program.
InvokedAfterEnd == animationComplete /\ ended >= 2

\* C9: an invocation less than 50 ms after the last effective one changes
\* none of the simulation state and makes no display call; two consecutive
\* effective invocations are at least 50 ms apart.
TooSoonIsNoOp ==
    [][/\ (clock' - lastUpdate < UpdatePeriod /\ loops' # loops)
             => /\ UNCHANGED simVars
                /\ calls' = <<>>
                /\ branch' = "wait"
       /\ lastUpdate' # lastUpdate
             => lastUpdate' - lastUpdate >= UpdatePeriod]_vars

\* C9 witness: an invocation found the clock advanced by less than 50 ms,
\* with birds in the flock, and returned at once.
ReturnedTooSoon ==
    /\ branch = "wait"
    /\ clock > lastUpdate
    /\ flock # <<>>

\* C10: an invocation that spawns creates min(50, remaining) birds, with
\* remaining = |targetPixels| - |capturedPixels| at its start, and appends
\* them to the flock.
WaveSize ==
    [][spawned' > 0 =>
          /\ spawned' =
                Min(WaveCap,
                    Cardinality(targetPixels) - Cardinality(capturedPixels))
          /\ Len(flock') = Len(flock) + spawned' - despawned']_vars

\* C10 witness: with three pixels remaining a wave of three birds was spawned.
WaveOfThree ==
    /\ targetPixels = ThreePixels
    /\ capturedPixels = {}
    /\ spawned = 3
    /\ Len(flock) >= 6

\* C11: after the cleanup of every frame every bird of the flock lies within
\* -25 <= x <= 89 and -25 <= y <= 57; a bird beyond the margin after its
\* update is not in the flock any more.
SurvivorsWithinMargin ==
    \A k \in 1..Len(flock) :
        /\ flock[k].position.x >= -25 * Milli
        /\ flock[k].position.x <= 89 * Milli
        /\ flock[k].position.y >= -25 * Milli
        /\ flock[k].position.y <= 57 * Milli

\* C11 witness: a frame has erased birds beyond the margin and kept others.
ErasedBeyondMargin ==
    /\ branch = "frame"
    /\ despawned > 0
    /\ flock # <<>>

\* The k-th effective invocations of the two runs did the same
sameEffect(k) ==
    /\ firstRun[k].wave = run[k].wave
    /\ firstRun[k].flock = run[k].flock
    /\ firstRun[k].captured = run[k].captured

\* The two runs read the same clock in setup() and in their first k
\* effective invocations
sameClock(k) ==
    \A j \in 1..k :
        firstRun[j].start = run[j].start /\ firstRun[j].time = run[j].time

PureHues ==
    /\ hsv = <<sixth(0), One, One>> => rgb = Color(255, 0, 0)
    /\ hsv = <<sixth(1), One, One>> => rgb = Color(255, 255, 0)
    /\ hsv = <<sixth(2), One, One>> => rgb = Color(0, 255, 0)
    /\ hsv = <<sixth(3), One, One>> => rgb = Color(0, 255, 255)
    /\ hsv = <<sixth(4), One, One>> => rgb = Color(0, 0, 255)
    /\ hsv = <<sixth(5), One, One>> => rgb = Color(255, 0, 255)
    /\ hsv = <<sixth(1) - 1, One, One>> => rgb = Color(255, 254, 0)

\* C13 witness: the hue 5/6 was converted to magenta.
MagentaConverted ==
    /\ hsv = <<sixth(5), One, One>>
    /\ rgb = Color(255, 0, 255)

spawns == {j \in 1..Len(run) : run[j].wave # <<>>}

\* C15: the k-th spawn of a run (k = 0, 1, ...) creates its wave at the
\* entry of direction k mod 8 of left, right, top, bottom, top_left,
\* top_right, bottom_left, bottom_right; the index is in 0 .. 7, advances by
\* one per spawn, from 7 to 0, and no other invocation changes it.
DirectionsInTurn ==
    /\ [](currentDirectionIdx \in 0..7)
    /\ [](currentDirectionIdx = Cardinality(spawns) % 8)
    /\ [](\A j \in spawns :
             run[j].wave =
                 createFlockFromDirection(
                     Len(run[j].wave),
                     <<"left", "right", "top", "bottom", "top_left",
                       "top_right", "bottom_left", "bottom_right">>[
                         (Cardinality({i \in spawns : i < j}) % 8) + 1],
                     run[j].generator))
    /\ [][spawned' > 0 =>
              currentDirectionIdx' =
                  IF currentDirectionIdx = 7 THEN 0
                  ELSE currentDirectionIdx + 1]_vars
    /\ [][spawned' = 0 => currentDirectionIdx' = currentDirectionIdx]_vars

\* C15 witness: the ninth spawn of a run, from the left again.
NinthWaveSpawned ==
    /\ Cardinality(spawns) = 9
    /\ spawned > 0
    /\ currentDirectionIdx = 1

\* C16: a frame of the running phase inserts exactly the coordinates that
\* are in the target mask, were not captured, and are the rounded position
\* of a bird whose position after the update is within 0 <= x < 64 and
\* 0 <= y < 32 (such a bird survives the cleanup, so it is in the flock the
\* frame leaves); no other invocation inserts a coordinate.
CaptureExactly ==
    [][capturedPixels' \ capturedPixels =
          IF branch' = "frame"
             /\ Cardinality(capturedPixels) < Cardinality(targetPixels)
          THEN {p \in targetPixels \ capturedPixels :
                   \E k \in 1..Len(flock') :
                       /\ flock'[k].position.x >= 0
                       /\ flock'[k].position.x < 64 * Milli
                       /\ flock'[k].position.y >= 0
                       /\ flock'[k].position.y < 32 * Milli
                       /\ p.x = (flock'[k].position.x + 500) \div Milli
                       /\ p.y = (flock'[k].position.y + 500) \div Milli}
          ELSE {}]_vars

\* C16 witness: a frame has left a bird just left of the screen, at
\* -0.5 < x < 0, whose rounded position is a target coordinate, uncaptured.
OffScreenOverTarget ==
    /\ branch = "frame"
    /\ \E k \in 1..Len(flock) :
          /\ flock[k].position.x < 0
          /\ flock[k].position.x > -500
          /\ getPixelPos(flock[k]) \in targetPixels \ capturedPixels

\* C17: the entry point of every wave spawned, for each of the 8 directions,
\* lies outside the screen 0 <= x < 64, 0 <= y < 32.
EntryOutsideScreen ==
    [][spawned' > 0 =>
          LET entry == entryPoint(directions[currentDirectionIdx + 1], generator)
          IN  ~(/\ entry.baseX >= 0
                /\ entry.baseX < 64 * Milli
                /\ entry.baseY >= 0
                /\ entry.baseY < 32 * Milli)]_vars

\* C18: the display calls of a frame are one fillScreen, one drawPixel for
\* each captured coordinate, one drawPixel for each bird of the flock (as the
\* frame leaves it) that is on screen, in flock order, at its rounded
\* position and with its index, and one show, in this order.
RenderInOrder ==
    branch = "frame" =>
        LET n == Cardinality(capturedPixels)
            shown == {k \in 1..Len(flock) :
                         /\ flock[k].position.x >= 0
                         /\ flock[k].position.x < 64 * Milli
                         /\ flock[k].position.y >= 0
                         /\ flock[k].position.y < 32 * Milli}
            m == Cardinality(shown)
        IN  /\ Len(calls) = n + m + 2
            /\ calls[1].op = "fillScreen"
            /\ calls[n + m + 2].op = "show"
            /\ \A i \in 2..(n + 1) :
                  calls[i].op = "drawPixel" /\ calls[i].what = "text"
            /\ {Position(calls[i].x, calls[i].y) : i \in 2..(n + 1)}
                   = capturedPixels
            /\ \A i \in (n + 2)..(n + m + 1) :
                  /\ calls[i].op = "drawPixel"
                  /\ calls[i].what = "bird"
                  /\ calls[i].index + 1 \in shown
                  /\ calls[i].x =
                        (flock[calls[i].index + 1].position.x + 500) \div Milli
                  /\ calls[i].y =
                        (flock[calls[i].index + 1].position.y + 500) \div Milli
                  /\ \A j \in (n + 2)..(i - 1) : calls[j].index < calls[i].index

\* C18 witness: a frame after the completion drew captured pixels and the
\* birds on screen, while other birds were off screen.
FrozenFrameDrawn ==
    /\ branch = "frame"
    /\ completionTime # 0
    /\ capturedPixels # {}
    /\ Len(calls) > Cardinality(capturedPixels) + 2
    /\ Len(calls) < Cardinality(capturedPixels) + Len(flock) + 2

\* C19: in every reachable state animationComplete implies that the
\* completion timestamp is set, and a set completion timestamp implies that
\* the captured set is the target mask.
EndOnlyByCompletion ==
    /\ animationComplete => completionTime # 0
    /\ completionTime # 0 =>
          /\ Cardinality(capturedPixels) = Cardinality(targetPixels)
          /\ capturedPixels = targetPixels

\* C19 witness: the program has ended, with every pixel of the mask captured.
EndedWithMaskCaptured ==
    /\ animationComplete
    /\ completionTime # 0
    /\ capturedPixels # {}
    /\ capturedPixels = targetPixels

\* C20: once the captured set is the target mask, with loop() invoked again
\* and again and the clock advancing, the completion timestamp is recorded
\* and the program ends: animationComplete is set and the display cleared.
CompletionLeadsToEnd ==
    (capturedPixels = targetPixels /\ clock + LiveSlack <= MaxLiveTime)
        ~> (/\ animationComplete
            /\ completionTime # 0
            /\ calls = <<fillScreen, show>>)

\* C20 witness: a run has ended after more invocations than the capture
\* took, some of which returned at once.
EndedAfterManyInvocations ==
    /\ animationComplete
    /\ capturedPixels = targetPixels
    /\ completionTime + LiveSlack <= MaxLiveTime
    /\ loops > MaxLiveLoops + 20

\* C21: every drawPixel call of an invocation has its coordinates inside
\* the matrix, 0 <= x < 64 and 0 <= y < 32.
DrawnInsideMatrix ==
    \A i \in 1..Len(calls) :
        calls[i].op = "drawPixel" =>
            /\ calls[i].x >= 0
            /\ calls[i].x < 64
            /\ calls[i].y >= 0
            /\ calls[i].y < 32

\* C22: every bird created by a spawn is in the flock at the end of the
\* invocation that spawned it: the birds erased by that invocation were in
\* the flock before, and the last birds of the flock are the birds created,
\* in their order, each moved by at most 1.2 in x and in y.
SpawnedAllKept ==
    [][spawned' > 0 =>
          LET created == createFlockFromDirection(
                             spawned', directions[currentDirectionIdx + 1],
                             generator)
              first == Len(flock') - spawned'
          IN  /\ despawned' <= Len(flock)
              /\ Len(flock') = Len(flock) + spawned' - despawned'
              /\ \A j \in 1..spawned' :
                    /\ flock'[first + j].position.x
                          >= created[j].position.x - 1200
                    /\ flock'[first + j].position.x
                          <= created[j].position.x + 1200
                    /\ flock'[first + j].position.y
                          >= created[j].position.y - 1200
                    /\ flock'[first + j].position.y
                          <= created[j].position.y + 1200]_vars

====
